---- MODULE Spec2Model ----
(***************************************************************************)
(* Model of model/modeldecoder/generator/code.go: the CodeGenerator that   *)
(* emits IsSet, Reset and validate methods for every struct type referenced*)
(* by the root types.                                                      *)
(*                                                                         *)
(* Text written to g.buf is modelled as a sequence of tokens, one token    *)
(* per Fprint/Fprintf call of the source.  Strings (keys, names) are TLA+  *)
(* strings; pattern variable names are sequences of character codes so     *)
(* that their lexicographic order can be computed.                         *)
(***************************************************************************)
EXTENDS Naturals, Sequences, FiniteSets, TLC

VARIABLES
    parsed,          \* *Parsed: structTypes, patternVariables, pkgName (input)
    rootTypes,       \* []string handed to NewCodeGenerator (input)
    pc,              \* where the caller / Generate stands
    buf,             \* g.buf
    rootObjs,        \* g.rootObjs
    processedTypes,  \* g.processedTypes
    rootIdx,         \* index of the range loop over g.rootObjs in Generate
    stack,           \* call stack of generate: frames [st, key, i, phase]
    err,             \* error travelling up the call stack (NoErr when nil)
    returned,        \* what every finished Generate call handed to its caller
    newErr,          \* error of the last NewCodeGenerator call
    gens             \* number of NewCodeGenerator calls so far

vars == <<parsed, rootTypes, pc, buf, rootObjs, processedTypes, rootIdx,
          stack, err, returned, newErr, gens>>

---------------------------------------------------------------------------
(* Bounds of the model *)

\* Generate calls observed in one behaviour
MaxCalls == 2
\* fields of one struct type
MaxFields == 2

---------------------------------------------------------------------------
(* Values *)

anonymousField == "_"

NoErr == [kind |-> "nil", in |-> "", key |-> "", wrap |-> ""]

Err(kind, in, key) == [kind |-> kind, in |-> in, key |-> key, wrap |-> ""]

\* one Fprint/Fprintf call on g.buf
Tok(op, a, b) == [op |-> op, a |-> a, b |-> b]

\* a structField: the types.Var (name, exported, type) and the struct tag.
\*   typ    f.Type().String()
\*   shape  kind of f.Type().Underlying()
\*   elem   String() of the element type of a slice or map
\*   tag    whether the tag has a json key; parts: its value split at ","
Field(name, exported, typ, shape, elem, tag, parts) ==
    [name |-> name, exported |-> exported, typ |-> typ, shape |-> shape,
     elem |-> elem, tag |-> tag, parts |-> parts]

TypeNames == {"A", "B", "C"}

\* strings.ToLower on the field names of the model
ToLower(s) ==
    CASE s = "Ctx"     -> "ctx"
      [] s = "Tags"    -> "tags"
      [] s = "Parent"  -> "parent"
      [] s = "Names"   -> "names"
      [] s = "Name"    -> "name"
      [] s = "Handler" -> "handler"
      [] OTHER         -> s

nullableTypeString == "nullable.String"
nullableTypeInt == "nullable.Int"
nullableTypeFloat64 == "nullable.Float64"
nullableTypeInterface == "nullable.Interface"

---------------------------------------------------------------------------
(* Pure helpers of code.go *)

parseTag(f) ==
    IF ~f.tag THEN <<>>
    ELSE IF f.parts = <<"-">> THEN <<>>
    ELSE f.parts

jsonName(f) ==
    IF Len(parseTag(f)) = 0 THEN ToLower(f.name) ELSE parseTag(f)[1]

flattenName(key, f) ==
    (IF key # "" THEN key \o "." ELSE key) \o jsonName(f)

customStructOk(typ) == typ \in DOMAIN parsed.structTypes

customStruct(typ) == parsed.structTypes[typ]

\* lexicographic order on names (sequences of character codes)
RECURSIVE StrLess(_, _)
StrLess(a, b) ==
    IF Len(a) = 0 THEN Len(b) > 0
    ELSE IF Len(b) = 0 THEN FALSE
    ELSE IF a[1] < b[1] THEN TRUE
    ELSE IF b[1] < a[1] THEN FALSE
    ELSE StrLess(Tail(a), Tail(b))

\* insert k into the sorted sequence s
RECURSIVE Insert(_, _)
Insert(s, k) ==
    IF Len(s) = 0 THEN <<k>>
    ELSE IF StrLess(k, s[1]) THEN <<k>> \o s
    ELSE <<s[1]>> \o Insert(Tail(s), k)

\* sortKeys without the sort: the keys in the order the map yields them
sortKeysUnsorted(keys) == keys

\* sortKeys: keys is the order in which the range over the map yields them;
\* the result is that sequence sorted (sort.StringSlice.Sort)
RECURSIVE sortKeys(_)
sortKeys(keys) ==
    IF Len(keys) = 0 THEN <<>>
    ELSE Insert(sortKeys(Tail(keys)), keys[1])

---------------------------------------------------------------------------
(* The three synthesizers.  Each yields the tokens it writes to g.buf and   *)
(* the error it returns; text written before an error stays written.       *)

Result(out, e) == [out |-> out, err |-> e]

dotted(key) == IF key # "" THEN key \o "." ELSE key

\* the for loop of generateIsSet from field i on; key carries its dot
RECURSIVE IsSetFields(_, _, _, _)
IsSetFields(fields, key, i, prefix) ==
    IF i > Len(fields) THEN Result(<<>>, NoErr)
    ELSE LET f == fields[i] IN
         IF ~f.exported THEN IsSetFields(fields, key, i + 1, prefix)
         ELSE IF f.shape \in {"slice", "map"} THEN
             LET r == IsSetFields(fields, key, i + 1, " ||")
             IN Result(<<Tok("IsSet.len", prefix, f.name)>> \o r.out, r.err)
         ELSE IF f.shape = "struct" THEN
             LET r == IsSetFields(fields, key, i + 1, " ||")
             IN Result(<<Tok("IsSet.call", prefix, f.name)>> \o r.out, r.err)
         ELSE Result(<<>>, Err("UnhandledType", "IsSet", key \o jsonName(f)))

generateIsSet(structTyp, key) ==
    IF Len(structTyp.fields) = 0
    THEN Result(<<>>, Err("NoExportedFields", "IsSet", structTyp.name))
    ELSE LET r == IsSetFields(structTyp.fields, dotted(key), 1, "")
         IN Result(<<Tok("IsSet.open", structTyp.name, "")>> \o r.out
                     \o (IF r.err = NoErr THEN <<Tok("IsSet.close", "", "")>>
                         ELSE <<>>),
                   r.err)

\* generateReset truncating the slice before it resets the elements
ResetSliceTruncateFirst(f) ==
    <<Tok("Reset.truncate", f.name, "")>>
    \o (IF customStructOk(f.elem) THEN <<Tok("Reset.elems", f.name, "")>> ELSE <<>>)

\* what generateReset writes for one slice field
ResetSlice(f) ==
    (IF customStructOk(f.elem) THEN <<Tok("Reset.elems", f.name, "")>> ELSE <<>>)
    \o <<Tok("Reset.truncate", f.name, "")>>

\* the for loop of generateReset from field i on
RECURSIVE ResetFields(_, _, _)
ResetFields(fields, key, i) ==
    IF i > Len(fields) THEN Result(<<>>, NoErr)
    ELSE LET f == fields[i] IN
         IF ~f.exported THEN ResetFields(fields, key, i + 1)
         ELSE IF f.shape = "slice" THEN
             LET r == ResetFields(fields, key, i + 1)
             IN Result(ResetSlice(f) \o r.out, r.err)
         ELSE IF f.shape = "map" THEN
             LET r == ResetFields(fields, key, i + 1)
             IN Result(<<Tok("Reset.delete", f.name, "")>> \o r.out, r.err)
         ELSE IF f.shape = "struct" THEN
             LET r == ResetFields(fields, key, i + 1)
             IN Result(<<Tok("Reset.call", f.name, "")>> \o r.out, r.err)
         ELSE Result(<<>>, Err("UnhandledType", "Reset", key \o jsonName(f)))

generateReset(structTyp, key) ==
    LET r == ResetFields(structTyp.fields, dotted(key), 1)
    IN Result(<<Tok("Reset.open", structTyp.name, "")>> \o r.out
                \o (IF r.err = NoErr THEN <<Tok("Reset.close", "", "")>>
                    ELSE <<>>),
              r.err)

\* a validation rule (generateNullableStringValidation, generateSliceValidation,
\* ...) called for field f: the rules are defined outside code.go; here a
\* rule writes its text for the field and returns nil
ValidationRule(rule, f, custom) ==
    Result(<<Tok("validate." \o rule, f.name, IF custom THEN "custom" ELSE "")>>,
           NoErr)

\* the rule generateValidation selects for field f; "" when there is none
SelectRule(f) ==
    IF f.typ = nullableTypeString THEN "nullableString"
    ELSE IF f.typ = nullableTypeInt THEN "nullableInt"
    ELSE IF f.typ = nullableTypeFloat64 THEN "nullableInt"
    ELSE IF f.typ = nullableTypeInterface THEN "nullableInterface"
    ELSE IF f.shape = "slice" THEN "slice"
    ELSE IF f.shape = "map" THEN "map"
    ELSE IF f.shape = "struct" THEN "struct"
    ELSE ""

\* the value of custom when the rule for f is called
SelectCustom(f) ==
    IF f.typ \in {nullableTypeString, nullableTypeInt, nullableTypeFloat64,
                  nullableTypeInterface} THEN FALSE
    ELSE IF f.shape \in {"slice", "map"} THEN customStructOk(f.elem)
    ELSE IF f.shape = "struct" THEN customStructOk(f.typ)
    ELSE FALSE

\* the for loop of generateValidation from field i on
RECURSIVE ValidationFields(_, _, _)
ValidationFields(fields, key, i) ==
    IF i > Len(fields) THEN Result(<<>>, NoErr)
    ELSE LET f == fields[i] IN
         IF ~f.exported /\ f.name # anonymousField
         THEN ValidationFields(fields, key, i + 1)
         ELSE IF SelectRule(f) = ""
         THEN Result(<<>>, Err("UnhandledType", "validate", flattenName(key, f)))
         ELSE LET v == ValidationRule(SelectRule(f), f, SelectCustom(f)) IN
              IF v.err # NoErr
              THEN Result(v.out, [v.err EXCEPT !.key = flattenName(key, f)])
              ELSE LET r == ValidationFields(fields, key, i + 1)
                   IN Result(v.out \o r.out, r.err)

\* isRoot taking the types generate is called for by Generate itself as roots
isRootTopLevel(structTyp) == Len(stack) = 1

isRoot(structTyp) ==
    \E i \in 1..Len(rootObjs) : structTyp.name = rootObjs[i].name

ShortCircuit(structTyp) ==
    IF ~isRoot(structTyp) THEN <<Tok("validate.isset", "", "")>> ELSE <<>>

generateValidation(structTyp, key) ==
    LET r == ValidationFields(structTyp.fields, key, 1)
    IN Result(<<Tok("validate.open", structTyp.name, "")>>
                \o ShortCircuit(structTyp) \o r.out
                \o (IF r.err = NoErr THEN <<Tok("validate.close", "", "")>>
                    ELSE <<>>),
              r.err)

---------------------------------------------------------------------------
(* Inputs *)

FCtx == Field("Ctx", TRUE, "B", "struct", "", FALSE, <<>>)
FTags == Field("Tags", TRUE, "[]C", "slice", "C", TRUE, <<"tags", "omitempty">>)
FParent == Field("Parent", TRUE, "map[string]A", "map", "A", TRUE, <<"parent">>)
FNames == Field("Names", TRUE, "[]string", "slice", "string", TRUE, <<"names">>)
FName == Field("Name", TRUE, nullableTypeString, "struct", "", TRUE, <<"name">>)
FHandler == Field("Handler", TRUE, "func()", "signature", "", TRUE, <<"handler">>)
FPriv == Field("priv", FALSE, "C", "struct", "", TRUE, <<"-">>)
FBlank == Field(anonymousField, FALSE, "int", "basic", "", FALSE, <<>>)

\* the fields a struct type of the model may declare, in declaration order
FieldPool(t) ==
    IF t = "A" THEN <<FCtx, FTags, FParent, FPriv>>
    ELSE IF t = "B" THEN <<FTags, FParent, FName>>
    ELSE <<FNames, FHandler, FBlank>>

\* the fields of pool from position i on whose position is in I
RECURSIVE Pick(_, _, _)
Pick(pool, I, i) ==
    IF i > Len(pool) THEN <<>>
    ELSE (IF i \in I THEN <<pool[i]>> ELSE <<>>) \o Pick(pool, I, i + 1)

\* a struct type declares at most MaxFields fields of its pool
FieldLists(t) ==
    { Pick(FieldPool(t), I, 1) :
        I \in { J \in SUBSET (1..Len(FieldPool(t))) : Cardinality(J) <= MaxFields } }

StructType(name, fields) == [name |-> name, fields |-> fields]

Schemas ==
    { [t \in TypeNames |->
          StructType(t, IF t = "A" THEN a ELSE IF t = "B" THEN b ELSE c)] :
      a \in FieldLists("A"), b \in FieldLists("B"), c \in FieldLists("C") }

\* the root lists handed to NewCodeGenerator; "Ghost" is no type of the schema
RootLists ==
    { <<>>, <<"A">>, <<"C">>, <<"A", "A">>, <<"A", "C">>, <<"C", "A">>,
      <<"Ghost">>, <<"A", "Ghost">> }

\* pattern variable names, as character codes ("a" is 1, "b" is 2)
PatternNames == { <<2>>, <<1, 2>>, <<1>> }

PatternPools == {PatternNames}

Chr(c) == IF c = 1 THEN "a" ELSE "b"

RECURSIVE ToStr(_)
ToStr(cs) == IF Len(cs) = 0 THEN "" ELSE Chr(cs[1]) \o ToStr(Tail(cs))

\* the orders in which a range over a map with these keys can yield them
Orders(S) ==
    { o \in [1..Cardinality(S) -> S] :
        \A i, j \in 1..Cardinality(S) : i # j => o[i] # o[j] }

---------------------------------------------------------------------------
(* State machine *)

Init ==
    /\ parsed \in { [structTypes |-> sc, patternVariables |-> pv, pkgName |-> "model"] :
                      sc \in Schemas, pv \in PatternPools }
    /\ rootTypes \in RootLists
    /\ pc = "start"
    /\ buf = <<>>
    /\ rootObjs = <<>>
    /\ processedTypes = {}
    /\ rootIdx = 1
    /\ stack = <<>>
    /\ err = NoErr
    /\ returned = <<>>
    /\ newErr = NoErr
    /\ gens = 0

\* indexes of the root names parsed.structTypes does not hold
Missing == { i \in 1..Len(rootTypes) : ~customStructOk(rootTypes[i]) }

FirstMissing == CHOOSE i \in Missing : \A j \in Missing : i <= j

\* Generate calls made on the present CodeGenerator
CallsOfGenerator == Cardinality({ i \in 1..Len(returned) : returned[i].gen = gens })

NewCodeGenerator ==
    /\ \/ pc = "start"
       \/ pc = "ready" /\ Len(returned) < MaxCalls /\ CallsOfGenerator > 0
    /\ gens' = gens + 1
    /\ IF Missing # {}
       THEN /\ newErr' = Err("RootNotFound", "NewCodeGenerator", rootTypes[FirstMissing])
            /\ pc' = "failed"
            /\ rootObjs' = <<>>
       ELSE /\ newErr' = NoErr
            /\ pc' = "ready"
            /\ rootObjs' = [i \in 1..Len(rootTypes) |-> customStruct(rootTypes[i])]
    /\ buf' = <<>>
    /\ processedTypes' = {}
    /\ UNCHANGED <<parsed, rootTypes, rootIdx, stack, err, returned>>

\* what Generate writes before it runs the generator code; keys is the
\* order in which the range over parsed.patternVariables yields the names
Header(keys) ==
    <<Tok("header", parsed.pkgName, "")>>
    \o [i \in 1..Len(keys) |-> Tok("pattern", ToStr(sortKeys(keys)[i]), "")]
    \o <<Tok("header.close", "", "")>>

Frame(st, key) == [st |-> st, key |-> key, i |-> 1, phase |-> "enter"]

Top == stack[Len(stack)]

Pop == SubSeq(stack, 1, Len(stack) - 1)

SetTop(fr) == [stack EXCEPT ![Len(stack)] = fr]

\* Generate, up to the loop over the root objects
Generate ==
    /\ pc = "ready"
    /\ Len(returned) < MaxCalls
    /\ \E keys \in Orders(parsed.patternVariables) :
          buf' = buf \o Header(keys)
    /\ pc' = "generate"
    /\ rootIdx' = 1
    /\ err' = NoErr
    /\ stack' = <<>>
    /\ UNCHANGED <<parsed, rootTypes, rootObjs, processedTypes, returned, newErr, gens>>

\* one iteration of the loop over g.rootObjs: the call g.generate(rootObj, "")
GenerateRoot ==
    /\ pc = "generate"
    /\ stack = <<>>
    /\ err = NoErr
    /\ rootIdx <= Len(rootObjs)
    /\ stack' = <<Frame(rootObjs[rootIdx], "")>>
    /\ rootIdx' = rootIdx + 1
    /\ UNCHANGED <<parsed, rootTypes, pc, buf, rootObjs, processedTypes, err,
                   returned, newErr, gens>>

\* Generate returns: g.buf with the wrapped error, or g.buf and nil
GenerateReturn ==
    /\ pc = "generate"
    /\ stack = <<>>
    /\ err # NoErr \/ rootIdx > Len(rootObjs)
    /\ returned' = Append(returned,
                          [buf |-> buf,
                           err |-> IF err # NoErr
                                   THEN [err EXCEPT !.wrap = "code generator"]
                                   ELSE NoErr,
                           gen |-> gens])
    /\ pc' = "ready"
    /\ err' = NoErr
    /\ UNCHANGED <<parsed, rootTypes, buf, rootObjs, processedTypes, rootIdx,
                   stack, newErr, gens>>

\* generate without the check of g.processedTypes
NeverProcessed(st) == FALSE

AlreadyProcessed(st) == st.name \in processedTypes

MarkProcessed(st) == processedTypes \cup {st.name}

\* entry of generate: the check of, and the entry into, g.processedTypes
generateEnter ==
    /\ pc = "generate"
    /\ stack # <<>>
    /\ err = NoErr
    /\ Top.phase = "enter"
    /\ IF AlreadyProcessed(Top.st)
       THEN /\ stack' = Pop
            /\ UNCHANGED processedTypes
       ELSE /\ processedTypes' = MarkProcessed(Top.st)
            /\ stack' = SetTop([Top EXCEPT !.phase = "isset"])
    /\ UNCHANGED <<parsed, rootTypes, pc, buf, rootObjs, rootIdx, err, returned,
                   newErr, gens>>

\* a synthesizer call of generate: r is what it wrote and returned
Synthesize(phase, r, next) ==
    /\ pc = "generate"
    /\ stack # <<>>
    /\ err = NoErr
    /\ Top.phase = phase
    /\ buf' = buf \o r.out
    /\ err' = r.err
    /\ stack' = IF r.err # NoErr THEN stack ELSE SetTop(next)
    /\ UNCHANGED <<parsed, rootTypes, pc, rootObjs, processedTypes, rootIdx,
                   returned, newErr, gens>>

generateCallIsSet ==
    Synthesize("isset", generateIsSet(Top.st, Top.key),
               [Top EXCEPT !.phase = "reset"])

\* generate calling generateValidation where it should call generateReset
generateCallResetAsValidation ==
    Synthesize("reset", generateValidation(Top.st, Top.key),
               [Top EXCEPT !.phase = "validation"])

generateCallReset ==
    Synthesize("reset", generateReset(Top.st, Top.key),
               [Top EXCEPT !.phase = "validation"])

generateCallValidation ==
    Synthesize("validation", generateValidation(Top.st, Top.key),
               [Top EXCEPT !.phase = "fields", !.key = dotted(Top.key)])

\* generate without the unwrapping of slice and map element types
childTypNotUnwrapped(f) == f.typ

\* the type generate looks up for field f
childTyp(f) == IF f.shape \in {"map", "slice"} THEN f.elem ELSE f.typ

\* generate handing the field's name alone to the recursive call
ChildKeyFieldOnly(key, f) == jsonName(f)

\* the key generate hands to the recursive call for field f
ChildKey(key, f) == key \o jsonName(f)

\* one iteration of the loop over st.fields in generate, or its end
generateField ==
    /\ pc = "generate"
    /\ stack # <<>>
    /\ err = NoErr
    /\ Top.phase = "fields"
    /\ IF Top.i > Len(Top.st.fields)
       THEN stack' = Pop
       ELSE LET f == Top.st.fields[Top.i]
                here == SetTop([Top EXCEPT !.i = Top.i + 1])
            IN IF customStructOk(childTyp(f))
               THEN stack' = Append(here, Frame(customStruct(childTyp(f)),
                                                ChildKey(Top.key, f)))
               ELSE stack' = here
    /\ UNCHANGED <<parsed, rootTypes, pc, buf, rootObjs, processedTypes, rootIdx,
                   err, returned, newErr, gens>>

\* generate returns the error of a synthesizer or of a recursive call at once
generateReturnErr ==
    /\ pc = "generate"
    /\ stack # <<>>
    /\ err # NoErr
    /\ stack' = Pop
    /\ UNCHANGED <<parsed, rootTypes, pc, buf, rootObjs, processedTypes, rootIdx,
                   err, returned, newErr, gens>>

Next ==
    \/ NewCodeGenerator
    \/ Generate
    \/ GenerateRoot
    \/ GenerateReturn
    \/ generateEnter
    \/ generateCallIsSet
    \/ generateCallReset
    \/ generateCallValidation
    \/ generateField
    \/ generateReturnErr

Spec == Init /\ [][Next]_vars

\* the steps inside Generate; the caller decides when NewCodeGenerator and
\* Generate are called, the Go runtime runs a started call to its end
GenerateStep ==
    \/ GenerateRoot
    \/ GenerateReturn
    \/ generateEnter
    \/ generateCallIsSet
    \/ generateCallReset
    \/ generateCallValidation
    \/ generateField
    \/ generateReturnErr

FairSpec == Spec /\ WF_vars(GenerateStep)

---------------------------------------------------------------------------
(* Notions the claims are stated in *)

RootNameSet == { rootTypes[i] : i \in 1..Len(rootTypes) }

FieldsOf(t) == parsed.structTypes[t].fields

\* type t has a field of type u, or a slice or map field with element type u
Edge(t, u) ==
    \E i \in 1..Len(FieldsOf(t)) :
        LET f == FieldsOf(t)[i]
        IN \/ f.shape = "struct" /\ f.typ = u
           \/ f.shape \in {"slice", "map"} /\ f.elem = u

RECURSIVE ReachFrom(_)
ReachFrom(S) ==
    LET N == S \cup { u \in TypeNames : \E t \in S : Edge(t, u) }
    IN IF N = S THEN S ELSE ReachFrom(N)

\* the types reachable from the root types
Reachable == ReachFrom(RootNameSet \cap TypeNames)

\* the Generate call recorded at returned[i] was the first on its generator
FirstOfGen(i) == \A j \in 1..(i - 1) : returned[j].gen # returned[i].gen

Succeeded(i) == returned[i].err = NoErr

CountTok(b, op, a) == Cardinality({ k \in 1..Len(b) : b[k].op = op /\ b[k].a = a })

MethodOpens == {"IsSet.open", "Reset.open", "validate.open"}

HasExported(t) == \E j \in 1..Len(FieldsOf(t)) : FieldsOf(t)[j].exported

---------------------------------------------------------------------------
(* Claims *)

\* C1: in a successful run on a fresh generator the types with synthesized
\* IsSet/Reset/validate are exactly the types reachable from the roots, each
\* synthesized exactly once.
C1_ReachableExactlyOnce ==
    returned # <<>> =>
        LET reach == Reachable
        IN \A i \in 1..Len(returned) :
              FirstOfGen(i) /\ Succeeded(i) =>
                  \A t \in TypeNames : \A op \in MethodOpens :
                      CountTok(returned[i].buf, op, t) = IF t \in reach THEN 1 ELSE 0

\* a successful run with the root A listed twice, A and B on a cycle and C
\* referenced by both A and B
C1_Witness ==
    /\ Len(returned) >= 1
    /\ Succeeded(1)
    /\ rootTypes = <<"A", "A">>
    /\ FieldsOf("A") = <<FCtx, FTags>>
    /\ FieldsOf("B") = <<FTags, FParent>>
    /\ FieldsOf("C") = <<FNames>>
    /\ CountTok(returned[1].buf, "IsSet.open", "C") = 1

\* C3 (as claimed): a Generate call that returns an error hands back a buffer
\* without any emitted text.
C3_NoPartialOutput ==
    \A i \in 1..Len(returned) : ~Succeeded(i) => returned[i].buf = <<>>

\* C4 (as claimed): generateIsSet never emits an IsSet body for a struct type
\* without exported fields.
C4_ZeroExportedAlwaysFails ==
    \A k \in 1..Len(buf) : buf[k].op = "IsSet.open" => HasExported(buf[k].a)

\* C5: a validate body starts with the presence short-circuit iff the type's
\* name is not among the root types.
C5_ShortCircuitIffNotRoot ==
    \A k \in 1..Len(buf) :
        buf[k].op = "validate.open" =>
            ((k < Len(buf) /\ buf[k + 1].op = "validate.isset")
                <=> buf[k].a \notin RootNameSet)

\* the root C was reached as a field of the root A, two calls deep, and its
\* validate body is written without the short-circuit
C5_Witness ==
    /\ Len(stack) >= 2
    /\ Top.st.name = "C"
    /\ Top.phase = "fields"
    /\ rootTypes = <<"A", "C">>
    /\ \E k \in 1..(Len(buf) - 1) :
          /\ buf[k] = Tok("validate.open", "C", "")
          /\ buf[k + 1].op # "validate.isset"
    /\ \E k \in 1..(Len(buf) - 1) :
          /\ buf[k] = Tok("validate.open", "B", "")
          /\ buf[k + 1].op = "validate.isset"

\* C10 (as claimed): every Generate call starts from an empty visited set and
\* an empty buffer, so a second call on the same CodeGenerator returns what
\* the first returned.
C10_RunScopedState ==
    /\ (pc = "generate" /\ rootIdx = 1 /\ stack = <<>> /\ err = NoErr) =>
          (processedTypes = {} /\ CountTok(buf, "header", parsed.pkgName) = 1)
    /\ \A i, j \in 1..Len(returned) :
          returned[i].gen = returned[j].gen => returned[i] = returned[j]

\* lexicographic order of two names, character code by character code
LexLess(a, b) ==
    \E k \in 1..(Len(a) + 1) :
        /\ \A j \in 1..(k - 1) : j <= Len(b) /\ a[j] = b[j]
        /\ \/ k = Len(a) + 1 /\ Len(b) >= k
           \/ k <= Len(a) /\ k <= Len(b) /\ a[k] < b[k]

\* the pattern variable names in ascending lexicographic order
SortedNames ==
    CHOOSE o \in Orders(parsed.patternVariables) :
        \A i, j \in 1..Len(o) : i < j => LexLess(o[i], o[j])

\* C6: two runs on the same input, each on a fresh generator, return the same
\* output, and the pattern declarations of the header are in lexicographic
\* order of their names whatever order the map yielded them in.
C6_Deterministic ==
    /\ \A i, j \in 1..Len(returned) :
          FirstOfGen(i) /\ FirstOfGen(j) => returned[i].buf = returned[j].buf
                                            /\ returned[i].err = returned[j].err
    /\ returned # <<>> =>
          LET sorted == SortedNames
          IN \A i \in 1..Len(returned) :
                SubSeq(returned[i].buf, 2, Len(sorted) + 1)
                    = [k \in 1..Len(sorted) |-> Tok("pattern", ToStr(sorted[k]), "")]

\* two finished runs on fresh generators that emitted methods
C6_Witness ==
    /\ Len(returned) = 2
    /\ FirstOfGen(2)
    /\ Succeeded(1) /\ Succeeded(2)
    /\ Len(SortedNames) = 3
    /\ CountTok(returned[2].buf, "IsSet.open", "A") = 1

\* the struct type field f refers to, "" when it refers to none
Target(f) ==
    IF f.shape = "struct" /\ f.typ \in TypeNames THEN f.typ
    ELSE IF f.shape \in {"slice", "map"} /\ f.elem \in TypeNames THEN f.elem
    ELSE ""

\* depth-first pre-order traversal of the schema: acc lists the types visited
\* so far, each with the external names of the fields it was first reached by
RECURSIVE DfsVisit(_, _, _)
RECURSIVE DfsFields(_, _, _, _)
DfsVisit(t, path, acc) ==
    IF \E k \in 1..Len(acc) : acc[k].typ = t THEN acc
    ELSE DfsFields(t, path, 1, Append(acc, [typ |-> t, path |-> path]))

DfsFields(t, path, i, acc) ==
    IF i > Len(FieldsOf(t)) THEN acc
    ELSE LET f == FieldsOf(t)[i]
         IN DfsFields(t, path, i + 1,
                      IF Target(f) # ""
                      THEN DfsVisit(Target(f), Append(path, jsonName(f)), acc)
                      ELSE acc)

RECURSIVE DfsRoots(_, _)
DfsRoots(i, acc) ==
    IF i > Len(rootTypes) THEN acc
    ELSE DfsRoots(i + 1, DfsVisit(rootTypes[i], <<>>, acc))

DfsOrder == DfsRoots(1, <<>>)

FirstPath(t) == DfsOrder[CHOOSE k \in 1..Len(DfsOrder) : DfsOrder[k].typ = t].path

RECURSIVE JoinDots(_)
JoinDots(names) ==
    IF Len(names) = 0 THEN ""
    ELSE IF Len(names) = 1 THEN names[1]
    ELSE names[1] \o "." \o JoinDots(Tail(names))

\* the first field of st the synthesizer named by in has no rule for
Offending(st, in) ==
    LET bad == { i \in 1..Len(st.fields) :
                    /\ st.fields[i].shape \notin {"slice", "map", "struct"}
                    /\ \/ st.fields[i].exported
                       \/ in = "validate" /\ st.fields[i].name = anonymousField }
    IN st.fields[CHOOSE i \in bad : \A j \in bad : i <= j]

\* a synthesizer has just returned an unsupported-field-type error for the
\* type on top of the stack, in the first Generate call on the generator
RaisedUnhandled ==
    /\ err.kind = "UnhandledType"
    /\ stack # <<>>
    /\ Top.phase \in {"isset", "reset", "validation"}
    /\ CallsOfGenerator = 0

ResetEnd(b, k) ==
    CHOOSE e \in (k + 1)..Len(b) :
        /\ b[e].op = "Reset.close"
        /\ \A n \in (k + 1)..(e - 1) : b[n].op # "Reset.close"

\* C8: in an emitted Reset body every exported slice field with a schema
\* struct as element type has the loop resetting the elements, placed before
\* the truncation of that field; a slice field of any other element type has
\* the truncation alone.
C8_ResetElementsBeforeTruncate ==
    \A k \in 1..Len(buf) :
        buf[k].op = "Reset.open" /\ (\E e \in (k + 1)..Len(buf) : buf[e].op = "Reset.close") =>
            LET body == (k + 1)..(ResetEnd(buf, k) - 1)
            IN \A i \in 1..Len(FieldsOf(buf[k].a)) :
                  LET f == FieldsOf(buf[k].a)[i]
                      loops == { m \in body : buf[m] = Tok("Reset.elems", f.name, "") }
                      cuts == { m \in body : buf[m] = Tok("Reset.truncate", f.name, "") }
                  IN f.exported /\ f.shape = "slice" =>
                        /\ Cardinality(cuts) = 1
                        /\ IF f.elem \in TypeNames
                           THEN /\ Cardinality(loops) = 1
                                /\ \A m \in loops : \A n \in cuts : m < n
                           ELSE loops = {}

\* Reset bodies for a slice of the schema struct C and for a slice of strings
C8_Witness ==
    /\ \E k \in 1..Len(buf) : buf[k] = Tok("Reset.elems", "Tags", "")
    /\ \E k \in 1..Len(buf) : buf[k] = Tok("Reset.truncate", "Names", "")
    /\ pc = "ready"

IsPrefix(a, b) == Len(a) <= Len(b) /\ a = SubSeq(b, 1, Len(a))

Family(op) ==
    IF op \in {"IsSet.open", "IsSet.len", "IsSet.call", "IsSet.close"} THEN "IsSet"
    ELSE IF op \in {"Reset.open", "Reset.elems", "Reset.truncate", "Reset.delete",
                    "Reset.call", "Reset.close"} THEN "Reset"
    ELSE IF op \in {"header", "pattern", "header.close"} THEN "header"
    ELSE "validate"

IsOpen(tok) == tok.op \in MethodOpens

IsClose(tok) == tok.op \in {"IsSet.close", "Reset.close", "validate.close", "header.close"}

\* the method openings of b, in order
Opens(b) == SelectSeq(b, IsOpen)

\* the method openings of a complete traversal: per type of the depth-first
\* pre-order IsSet, Reset, validate
RECURSIVE ExpectedOpens(_)
ExpectedOpens(order) ==
    IF Len(order) = 0 THEN <<>>
    ELSE << Tok("IsSet.open", order[1].typ, ""), Tok("Reset.open", order[1].typ, ""),
            Tok("validate.open", order[1].typ, "") >> \o ExpectedOpens(Tail(order))

\* b is a header followed by method bodies, each one contiguous, in the
\* order of the traversal
Ordered(b) ==
    LET n == Cardinality(parsed.patternVariables) IN
    /\ Len(b) >= n + 2
    /\ b[1].op = "header"
    /\ \A k \in 2..(n + 1) : b[k].op = "pattern"
    /\ b[n + 2].op = "header.close"
    /\ \A k \in (n + 3)..Len(b) :
          /\ Family(b[k].op) # "header"
          /\ IF IsOpen(b[k]) THEN IsClose(b[k - 1])
             ELSE Family(b[k - 1].op) = Family(b[k].op) /\ ~IsClose(b[k - 1])
    /\ IsPrefix(Opens(b), ExpectedOpens(DfsOrder))

C9_OrderedState ==
    /\ CallsOfGenerator = 0 /\ buf # <<>> => Ordered(buf)
    /\ \A i \in 1..Len(returned) :
          FirstOfGen(i) =>
              /\ Ordered(returned[i].buf)
              /\ Succeeded(i) => Opens(returned[i].buf) = ExpectedOpens(DfsOrder)

\* C9: the buffer of a generator only grows, and in a run it holds the header
\* first and then, per type in depth-first pre-order of the traversal, the
\* IsSet, Reset and validate bodies, contiguous and in that order.
C9_AppendOnlyOrdered ==
    /\ [](C9_OrderedState)
    /\ [][gens' = gens => IsPrefix(buf, buf')]_vars

\* a finished run over A -> B -> C with C also a field of A and a root: C's
\* methods follow B's, before the traversal returns to A
C9_Witness ==
    /\ Len(returned) = 1
    /\ Succeeded(1)
    /\ rootTypes = <<"A", "C">>
    /\ FieldsOf("A") = <<FCtx, FTags>>
    /\ FieldsOf("B") = <<FTags, FName>>
    /\ Len(Opens(returned[1].buf)) = 9
    /\ Opens(returned[1].buf)[4].a = "B"
    /\ Opens(returned[1].buf)[7].a = "C"

\* generate passes the check of g.processedTypes for the type on top of the stack
EntersBody ==
    /\ stack # <<>>
    /\ Top.phase = "enter"
    /\ Len(stack') = Len(stack)
    /\ stack'[Len(stack)].phase = "isset"

\* C2: every Generate call returns, and generate never passes the check of
\* g.processedTypes for a type that is marked processed.
C2_TerminatesNoReentry ==
    /\ [][EntersBody => Top.st.name \notin processedTypes]_vars
    /\ []<>(pc # "generate")

\* the traversal is back at a type that is on the stack already, three calls
\* deep (A -> B -> A), and a self-reference of A has been met before
C2_Witness ==
    /\ Len(stack) >= 3
    /\ Top.phase = "enter"
    /\ Top.st.name = "A"
    /\ stack[1].st.name = "A"
    /\ stack[2].st.name = "B"
    /\ FieldsOf("A") = <<FCtx, FParent>>

====
